---- MODULE Spec2Model ----
(***************************************************************************)
(* A model of mkchimeenv.py: the progress model of a repository clone      *)
(* (match_opcode, RichProgress) and the dependency aggregation and         *)
(* two-phase installation performed by the `create` command.               *)
(*                                                                         *)
(* Strings are sequences of one-character strings, so that the string      *)
(* functions of the program (canonicalize_name, str.replace, str(req),     *)
(* the ordering used by sorted) are computed character by character.       *)
(*                                                                         *)
(* create is modelled from the choice of the registry (line 335) on: the   *)
(* creation of the directory and of the virtual environment is left out.   *)
(* The calls of external programs (git clone, pip install, the skyfield    *)
(* download) succeed or fail nondeterministically; what a clone contains,  *)
(* the progress events git delivers during it and what pip freeze reports  *)
(* are inputs drawn from small sets.  A run of create manages the last     *)
(* MaxPublic public repositories of the registry (and the private one).    *)
(***************************************************************************)
EXTENDS Integers, Sequences, FiniteSets, TLC

VARIABLES
    \* ---- the current RichProgress object and the rich Progress display
    op_code,        \* the op_code of its last update() call (-1: none yet)
    tasks,          \* RichProgress.tasks: stage code -> task id
    overall_task,   \* RichProgress.overall_task: a task id (-1: no object)
    nevents,        \* number of update() calls delivered to it
    meters,         \* the tasks of the Progress bound to `progress`, task id i
                    \* at index i+1
    \* ---- the create command
    pc,             \* position in create
    fast, compat, download, chime_member,   \* command-line flags
    chime_repositories,     \* the registry in insertion order (names)
    idx,            \* index of the current loop
    pending,        \* progress events the running clone has yet to deliver
    requirements,   \* the working requirement list
    optional_requirements,  \* repository name -> (extra -> requirement list)
    installed_packages,     \* names reported by pip freeze
    req_dict,       \* groups in insertion order: [name, reqs]
    code_path,      \* the cloned repositories: name -> its pyproject.toml
    ops,            \* external operations issued so far, in order
    error           \* the exception that ended the run ("" when none)

richVars == <<op_code, tasks, overall_task, nevents>>
progressVars == <<richVars, meters>>
createVars == <<pc, fast, compat, download, chime_member, chime_repositories,
                idx, pending, requirements, optional_requirements, installed_packages,
                req_dict, code_path, ops, error>>
vars == <<progressVars, createVars>>

(***************************************************************************)
(* Bounds of the model.                                                    *)
(***************************************************************************)
MaxOpcode == 127        \* op codes 0..MaxOpcode are delivered
MaxEvents == 2          \* update() calls delivered to one RichProgress
MaxDeps == 1            \* entries of one manifest's dependencies list
MaxPublic == 2          \* public repositories a run manages (the last ones)

(***************************************************************************)
(* Integer and string primitives.                                          *)
(***************************************************************************)
\* Python's `a & b` on non-negative integers.
RECURSIVE BitAnd(_, _)
BitAnd(a, b) ==
    IF a = 0 \/ b = 0 THEN 0
    ELSE (a % 2) * (b % 2) + 2 * BitAnd(a \div 2, b \div 2)

\* Code points of the characters the model's strings are made of.
CodePoint ==
    " " :> 32 @@ "," :> 44 @@ "-" :> 45 @@ "." :> 46 @@ "/" :> 47
    @@ "0" :> 48 @@ "1" :> 49 @@ "2" :> 50 @@ "3" :> 51 @@ "4" :> 52
    @@ "5" :> 53 @@ "6" :> 54 @@ "7" :> 55 @@ "8" :> 56 @@ "9" :> 57
    @@ "=" :> 61 @@ ">" :> 62 @@ "A" :> 65 @@ "B" :> 66 @@ "C" :> 67
    @@ "D" :> 68 @@ "E" :> 69 @@ "F" :> 70 @@ "G" :> 71 @@ "H" :> 72
    @@ "I" :> 73 @@ "J" :> 74 @@ "K" :> 75 @@ "L" :> 76 @@ "M" :> 77
    @@ "N" :> 78 @@ "O" :> 79 @@ "P" :> 80 @@ "Q" :> 81 @@ "R" :> 82
    @@ "S" :> 83 @@ "T" :> 84 @@ "U" :> 85 @@ "V" :> 86 @@ "W" :> 87
    @@ "X" :> 88 @@ "Y" :> 89 @@ "Z" :> 90 @@ "[" :> 91 @@ "]" :> 93
    @@ "_" :> 95 @@ "a" :> 97 @@ "b" :> 98 @@ "c" :> 99 @@ "d" :> 100
    @@ "e" :> 101 @@ "f" :> 102 @@ "g" :> 103 @@ "h" :> 104 @@ "i" :> 105
    @@ "j" :> 106 @@ "k" :> 107 @@ "l" :> 108 @@ "m" :> 109 @@ "n" :> 110
    @@ "o" :> 111 @@ "p" :> 112 @@ "q" :> 113 @@ "r" :> 114 @@ "s" :> 115
    @@ "t" :> 116 @@ "u" :> 117 @@ "v" :> 118 @@ "w" :> 119 @@ "x" :> 120
    @@ "y" :> 121 @@ "z" :> 122

\* ord(c)
Ord(c) == CodePoint[c]

\* The upper-case letters and their lower-case forms.
Upper == <<"A", "B", "C", "D", "E", "F", "G", "H", "I", "J", "K", "L", "M">>
         \o <<"N", "O", "P", "Q", "R", "S", "T", "U", "V", "W", "X", "Y", "Z">>
Lower == <<"a", "b", "c", "d", "e", "f", "g", "h", "i", "j", "k", "l", "m">>
         \o <<"n", "o", "p", "q", "r", "s", "t", "u", "v", "w", "x", "y", "z">>
ToLower == [c \in {Upper[i] : i \in DOMAIN Upper} |->
              Lower[CHOOSE i \in DOMAIN Upper : Upper[i] = c]]

\* str.lower() on one character.
LowerChar(c) == IF c \in DOMAIN ToLower THEN ToLower[c] ELSE c

\* Python's `a < b` on strings: lexicographic by code point.
RECURSIVE StrLess(_, _)
StrLess(a, b) ==
    IF b = <<>> THEN FALSE
    ELSE IF a = <<>> THEN TRUE
    ELSE IF Head(a) # Head(b) THEN Ord(Head(a)) < Ord(Head(b))
    ELSE StrLess(Tail(a), Tail(b))

\* s.replace(".", "-")
ReplaceDot(s) == [i \in 1..Len(s) |-> IF s[i] = "." THEN "-" ELSE s[i]]

Separators == {"-", "_", "."}

RECURSIVE DropSeparators(_)
DropSeparators(s) ==
    IF s # <<>> /\ Head(s) \in Separators THEN DropSeparators(Tail(s)) ELSE s

\* re.sub(r"[-_.]+", "-", s)
RECURSIVE CollapseSeparators(_)
CollapseSeparators(s) ==
    IF s = <<>> THEN <<>>
    ELSE IF Head(s) \in Separators
         THEN <<"-">> \o CollapseSeparators(DropSeparators(Tail(s)))
         ELSE <<Head(s)>> \o CollapseSeparators(Tail(s))

\* packaging.utils.canonicalize_name
canonicalize_name(name) ==
    LET c == CollapseSeparators(name)
    IN  [i \in 1..Len(c) |-> LowerChar(c[i])]

(***************************************************************************)
(* match_opcode and RichProgress.                                          *)
(***************************************************************************)
\* git.RemoteProgress op codes
END == 2
COUNTING == 4
COMPRESSING == 8
RECEIVING == 32
RESOLVING == 64

codes == << [code |-> COUNTING, msg |-> "Counting (remote)"],
            [code |-> COMPRESSING, msg |-> "Compressing (remote)"],
            [code |-> RECEIVING, msg |-> "Receiving"],
            [code |-> RESOLVING, msg |-> "Resolving"] >>

\* The first i >= from with opcode & codes[i].code # 0, or 0 when there is none.
RECURSIVE FirstMatch(_, _)
FirstMatch(opcode, from) ==
    IF from > Len(codes) THEN 0
    ELSE IF BitAnd(opcode, codes[from].code) # 0 THEN from
    ELSE FirstMatch(opcode, from + 1)

\* The last i with opcode & codes[i].code # 0, or 0 when there is none.
LastMatch(opcode) ==
    LET hits == {i \in DOMAIN codes : BitAnd(opcode, codes[i].code) # 0}
    IN  IF hits = {} THEN 0 ELSE CHOOSE i \in hits : \A j \in hits : j <= i

\* match_opcode with the table searched from its end.
match_opcode_last(opcode) ==
    LET done == BitAnd(opcode, END) # 0
        i == LastMatch(opcode)
    IN  IF i # 0
        THEN <<codes[i].code, codes[i].msg, done>>
        ELSE <<0, "Unknown", done>>

\* match_opcode: the tuple (code, msg, done)
match_opcode(opcode) ==
    LET done == BitAnd(opcode, END) # 0
        i == FirstMatch(opcode, 1)
    IN  IF i # 0
        THEN <<codes[i].code, codes[i].msg, done>>
        ELSE <<0, "Unknown", done>>

NoneValue == -1
OverallTotal == 4

\* rich Progress.add_task: the new task list; the new task's id is Len(meters).
add_task(ms, description, total) ==
    Append(ms, [description |-> description, total |-> total,
                completed |-> 0, visible |-> TRUE])

\* rich Progress.advance(task_id): completed += 1
advance(ms, task_id) ==
    [ms EXCEPT ![task_id + 1].completed = @ + 1]

\* rich Progress.reset(task_id, total=total, completed=completed)
reset(ms, task_id, total, completed) ==
    [ms EXCEPT ![task_id + 1].total = total, ![task_id + 1].completed = completed]

\* str(n) for n >= 0
Digit(n) ==
    CASE n = 0 -> "0" [] n = 1 -> "1" [] n = 2 -> "2" [] n = 3 -> "3"
      [] n = 4 -> "4" [] n = 5 -> "5" [] n = 6 -> "6" [] n = 7 -> "7"
      [] n = 8 -> "8" [] n = 9 -> "9"

RECURSIVE Digits(_)
Digits(n) ==
    IF n < 10 THEN <<Digit(n)>> ELSE Digits(n \div 10) \o <<Digit(n % 10)>>

\* f"{n:{width}d}": str(n) padded with spaces on the left
Padded(n, width) ==
    [i \in 1..(width - Len(Digits(n))) |-> " "] \o Digits(n)

\* labeller: the label of item number ii (counted from 1) of `total` items
labeller(ii, total) ==
    <<"[">> \o Padded(ii, Len(Digits(total))) \o <<"/">> \o Digits(total) \o <<"]">>

\* f"{label} {name}"
Label(label, name) == label \o <<" ">> \o name

\* The create command before it starts (used while only the progress model runs).
CreateIdle ==
    /\ pc = "idle"
    /\ fast = FALSE /\ compat = FALSE /\ download = FALSE /\ chime_member = FALSE
    /\ chime_repositories = << >>
    /\ idx = 0
    /\ pending = << >>
    /\ requirements = << >>
    /\ optional_requirements = << >>
    /\ installed_packages = {}
    /\ req_dict = << >>
    /\ code_path = << >>
    /\ ops = << >>
    /\ error = ""

\* RichProgress.__init__(label, progress), progress being the display `meters`
RichProgress(label) ==
    /\ overall_task' = Len(meters)
    /\ meters' = add_task(meters, label, OverallTotal)
    /\ tasks' = << >>
    /\ op_code' = NoneValue
    /\ nevents' = 0

\* A RichProgress made for a new Progress, outside create.
ProgressInit ==
    /\ CreateIdle
    /\ overall_task = 0
    /\ meters = add_task(<< >>, <<"l", "a", "b", "e", "l">>, OverallTotal)
    /\ tasks = << >>
    /\ op_code = NoneValue
    /\ nevents = 0

\* RichProgress.update(op_code, cur_count, max_count)
update(oc, cc, max_count) ==
    \E m \in {match_opcode(oc)} :
    LET code == m[1]
        msg == m[2]
        done == m[3]
        isNew == code \notin DOMAIN tasks
        tasks1 == IF isNew THEN (code :> Len(meters)) @@ tasks ELSE tasks
        meters1 == IF isNew THEN add_task(meters, msg, max_count) ELSE meters
        task == tasks1[code]
        meters2 == [meters1 EXCEPT ![task + 1].completed = cc,
                                   ![task + 1].visible = ~done]
    IN  /\ op_code' = oc
        /\ tasks' = tasks1
        /\ meters' = IF done THEN advance(meters2, overall_task) ELSE meters2
        /\ nevents' = nevents + 1
        /\ UNCHANGED overall_task

\* One call of update() on the RichProgress made outside create: the op code is
\* any signal, cur_count is the number of the event, max_count is left at its
\* default (None).
Update ==
    /\ pc = "idle"
    /\ nevents < MaxEvents
    /\ \E oc \in 0..MaxOpcode : update(oc, nevents + 1, NoneValue)
    /\ UNCHANGED createVars

(***************************************************************************)
(* Requirements (packaging.requirements.Requirement).                      *)
(***************************************************************************)
Range(f) == {f[i] : i \in DOMAIN f}

SeqsUpTo(S, n) == UNION {[1..k -> S] : k \in 0..n}

\* A dependency-spec string of a manifest, as packaging reads it: `valid` is
\* whether Requirement(item) parses, the other fields are what it parses to.
Item(valid, name, extras, specifier) ==
    [valid |-> valid, name |-> name, extras |-> extras, specifier |-> specifier]

\* Requirement(item), for an item that parses.
Requirement(item) ==
    [name |-> item.name, extras |-> item.extras, specifier |-> item.specifier]

\* sorted(S) for a set of strings
RECURSIVE SortedStrings(_)
SortedStrings(S) ==
    IF S = {} THEN << >>
    ELSE LET m == CHOOSE x \in S : \A z \in S \ {x} : StrLess(x, z)
         IN  <<m>> \o SortedStrings(S \ {m})

\* sep.join(ss)
RECURSIVE Join(_, _)
Join(sep, ss) ==
    IF ss = << >> THEN << >>
    ELSE IF Len(ss) = 1 THEN ss[1]
    ELSE ss[1] \o sep \o Join(sep, Tail(ss))

\* str(req): name, then [extras] sorted and comma-joined, then the specifier
str(req) ==
    req.name
    \o (IF req.extras = {} THEN << >>
        ELSE <<"[">> \o Join(<<",">>, SortedStrings(req.extras)) \o <<"]">>)
    \o req.specifier

\* s with x inserted before the first element whose name is greater than x's.
RECURSIVE InsertByName(_, _)
InsertByName(s, x) ==
    IF s = << >> THEN <<x>>
    ELSE IF StrLess(x.name, Head(s).name) THEN <<x>> \o s
    ELSE <<Head(s)>> \o InsertByName(Tail(s), x)

\* sorted(s, key=lambda x: x.name): a stable sort by raw name
RECURSIVE sorted(_)
sorted(s) ==
    IF s = << >> THEN << >>
    ELSE InsertByName(sorted(SubSeq(s, 1, Len(s) - 1)), s[Len(s)])

\* The Requirement of every item that parses; the others are skipped.
ParseAll(items) ==
    LET v == SelectSeq(items, LAMBDA it : it.valid)
    IN  [i \in 1..Len(v) |-> Requirement(v[i])]

\* find_requirements, for a project file that exists
find_requirements(file) == sorted(ParseAll(file.dependencies))

\* find_optional_requirements, for a project file that exists
find_optional_requirements(file) ==
    [item \in DOMAIN file.optional |-> ParseAll(file.optional[item])]

(***************************************************************************)
(* The registry.                                                           *)
(***************************************************************************)
ch_util == <<"c", "h", "_", "u", "t", "i", "l">>
ch_pipeline == <<"c", "h", "_", "p", "i", "p", "e", "l", "i", "n", "e">>
chimedb_config == <<"c", "h", "i", "m", "e", "d", "b", "-", "c", "o", "n", "f", "i", "g">>

\* The keys of public_repositories(ssh), in insertion order.
public_repositories ==
    << <<"c", "a", "p", "u", "t">>,
       <<"c", "o", "r", "a">>,
       <<"d", "r", "i", "f", "t", "s", "c", "a", "n">>,
       <<"d", "r", "a", "c", "o">>,
       <<"f", "l", "u", "x", "c", "a", "t">>,
       <<"c", "h", "i", "m", "e", "d", "b">>,
       <<"c", "h", "i", "m", "e", "d", "b", "-", "d", "a", "t", "a", "_", "i", "n", "d", "e", "x">>,
       <<"c", "h", "i", "m", "e", "d", "b", "-", "d", "a", "t", "a", "f", "l", "a", "g">>,
       <<"c", "h", "i", "m", "e", "d", "b", "-", "d", "a", "t", "a", "s", "e", "t">>,
       <<"c", "h", "_", "e", "p", "h", "e", "m">>,
       ch_util,
       ch_pipeline >>

\* The keys of private_repositories.
private_repositories == << chimedb_config >>

\* The last n entries of a registry.
Last(registry, n) == SubSeq(registry, Len(registry) - n + 1, Len(registry))

(***************************************************************************)
(* The inputs of create: the manifests of the clones, the progress events  *)
(* of a clone, the output of pip freeze.                                   *)
(***************************************************************************)

\* extra_packages = []
extra_packages == << >>

NoExtras == {}
NoSpec == << >>
GE1 == <<">", "=", "1">>
ExtraE == <<"e">>
ExtraF == <<"f">>
ExtraNames == {ExtraE, ExtraF}

\* Entries the dependencies list of a repository's manifest is made of.  For
\* ch_util and ch_pipeline: a package, a reference to another repository with
\* an extra, and a spelling of a repository name that differs from the
\* registry's.  The manifests of the other repositories list nothing.
DepPool(repo) ==
    IF repo = ch_util
    THEN { Item(TRUE, <<"y">>, NoExtras, NoSpec),
           Item(TRUE, ch_pipeline, {ExtraE}, NoSpec),
           Item(TRUE, <<"c", "h", "i", "m", "e", "d", "b", ".", "c", "o", "n", "f", "i", "g">>, {ExtraE}, NoSpec) }
    ELSE IF repo = ch_pipeline
    THEN { Item(TRUE, <<"y">>, NoExtras, GE1),
           Item(TRUE, <<"c", "h", "-", "u", "t", "i", "l">>, NoExtras, NoSpec),
           Item(TRUE, ch_pipeline, {ExtraE, ExtraF}, NoSpec) }
    ELSE { }

\* The optional-dependencies tables the manifest of a repository may have.
OptionalPool(repo) ==
    IF repo = ch_util
    THEN { << >>,
           (ExtraE :> << Item(TRUE, <<"Y">>, NoExtras, NoSpec),
                         Item(FALSE, << >>, NoExtras, NoSpec) >>) }
    ELSE IF repo = ch_pipeline
    THEN { << >>,
           (ExtraE :> << Item(TRUE, <<"Y">>, NoExtras, NoSpec),
                         Item(FALSE, << >>, NoExtras, NoSpec) >>),
           (ExtraE :> << Item(TRUE, ch_util, {ExtraE}, NoSpec) >>)
             @@ (ExtraF :> << Item(TRUE, <<"z">>, NoExtras, GE1) >>) }
    ELSE { << >> }

Manifests(repo) ==
    [dependencies : SeqsUpTo(DepPool(repo), MaxDeps), optional : OptionalPool(repo)]

\* A call update(op_code, cur_count, max_count) that git makes during a clone.
Event(oc, cc, max_count) ==
    [op_code |-> oc, cur_count |-> cc, max_count |-> max_count]

\* The progress events one clone may deliver, in order: the end of the
\* counting stage and the end of the receiving stage, with or without an
\* earlier report of the counting stage.
CloneEvents ==
    { << Event(COUNTING + END, 10, 10), Event(RECEIVING + END, 3, 3) >>,
      << Event(COUNTING, 5, 10), Event(COUNTING + END, 10, 10),
         Event(RECEIVING + END, 3, 3) >> }

NoFile == [dependencies |-> << >>, optional |-> << >>, missing |-> TRUE]

\* What pip freeze may report (names, after split("==")[0]).
FreezeOutputs == SUBSET { <<"y">> }

\* Iteration orders of a set of extras (a Python set iterates in hash order).
ExtraOrders == { <<ExtraE, ExtraF>>, <<ExtraF, ExtraE>> }

(***************************************************************************)
(* The steps of create.                                                    *)
(***************************************************************************)
\* chime_repo_names = list(chime_repositories.keys())
chime_repo_names == chime_repositories

\* req.name.replace(".", "-") in chime_repo_names
NamesChimeRepo(req, names) == ReplaceDot(req.name) \in Range(names)

\* The lookups of an activation loop that looks up every extra, listed or not.
RECURSIVE ExtraLookupsAll(_, _, _)
ExtraLookupsAll(copy, names, order) ==
    IF copy = << >> THEN << >>
    ELSE LET req == Head(copy)
         IN  (IF NamesChimeRepo(req, names)
              THEN [i \in 1..Len(order) |-> [name |-> req.name, extra |-> order[i]]]
              ELSE << >>)
             \o ExtraLookupsAll(Tail(copy), names, order)

\* The lookups optional_requirements[req.name][extra] of the activation loop,
\* in the order the loop makes them; `order` is the iteration order of extras.
RECURSIVE ExtraLookups(_, _, _)
ExtraLookups(copy, names, order) ==
    IF copy = << >> THEN << >>
    ELSE LET req == Head(copy)
             extras == SelectSeq(order, LAMBDA e : e \in req.extras)
         IN  (IF NamesChimeRepo(req, names)
              THEN [i \in 1..Len(extras) |-> [name |-> req.name, extra |-> extras[i]]]
              ELSE << >>)
             \o ExtraLookups(Tail(copy), names, order)

\* requirements.extend(optional[name][extra]) for each lookup, until one
\* raises KeyError.
RECURSIVE Extend(_, _, _)
Extend(reqs, lookups, optional) ==
    IF lookups = << >> THEN [requirements |-> reqs, KeyError |-> FALSE]
    ELSE LET l == Head(lookups)
         IN  IF l.name \notin DOMAIN optional
                THEN [requirements |-> reqs, KeyError |-> TRUE]
             ELSE IF l.extra \notin DOMAIN optional[l.name]
                THEN [requirements |-> reqs, KeyError |-> TRUE]
             ELSE Extend(reqs \o optional[l.name][l.extra], Tail(lookups), optional)

\* The activation loop run over the list it extends rather than over a copy of
\* it (for one more round).
ActivateExtrasLive(reqs, names, optional, order) ==
    LET first == Extend(reqs, ExtraLookups(reqs, names, order), optional)
        added == SubSeq(first.requirements, Len(reqs) + 1, Len(first.requirements))
    IN  IF first.KeyError THEN first
        ELSE Extend(first.requirements, ExtraLookups(added, names, order), optional)

\* The loop `for req in requirements.copy()` of the extras activation.
ActivateExtras(reqs, names, optional, order) ==
    Extend(reqs, ExtraLookups(reqs, names, order), optional)

\* [req for req in requirements if req.name.replace(".", "-") not in chime_repo_names]
RemoveChime(reqs, names) ==
    SelectSeq(reqs, LAMBDA req : ~NamesChimeRepo(req, names))

\* The already-installed filter comparing names instead of str(req).
RemoveInstalledByName(reqs, installed) ==
    SelectSeq(reqs, LAMBDA req : req.name \notin installed)

\* [req for req in requirements if str(req) not in installed_packages]
RemoveInstalled(reqs, installed) ==
    SelectSeq(reqs, LAMBDA req : str(req) \notin installed)

\* Grouping under the raw name.
GroupKeyRaw(req) == req.name

\* The key a requirement is grouped under.
GroupKey(req) == canonicalize_name(req.name)

\* The grouping loop over an already sorted list; d is req_dict so far.
RECURSIVE Group(_, _)
Group(d, reqs) ==
    IF reqs = << >> THEN d
    ELSE LET req == Head(reqs)
             name == GroupKey(req)
             at == {i \in DOMAIN d : d[i].name = name}
         IN  Group(IF at = {}
                   THEN Append(d, [name |-> name, reqs |-> <<req>>])
                   ELSE [i \in DOMAIN d |->
                           IF i \in at THEN [d[i] EXCEPT !.reqs = Append(@, req)]
                           ELSE d[i]],
                   Tail(reqs))

\* options of a Phase 1 install (None is passed on as no options)
GroupOptions(f) == IF f THEN <<"--no-build-isolation">> ELSE << >>

\* options of a Phase 2 install that lets pip resolve dependencies
EditableOptionsWithDeps(f, c) ==
    (IF f THEN <<"--no-build-isolation">> ELSE << >>)
    \o (IF c THEN <<"--config-settings", "editable_mode=compat">> ELSE << >>)

\* options of a Phase 2 install
EditableOptions(f, c) ==
    <<"--no-deps">>
    \o (IF f THEN <<"--no-build-isolation">> ELSE << >>)
    \o (IF c THEN <<"--config-settings", "editable_mode=compat">> ELSE << >>)

\* A create that also catches the failure of a Phase 1 install.
OnFailureCaught(kind, next) ==
    IF kind \in {"download", "install"} THEN next ELSE "failed"

\* Where create goes when an operation of kind `kind` fails: only the failure of
\* the skyfield download is caught.
OnFailure(kind, next) == IF kind = "download" THEN next ELSE "failed"

\* The exception a failing operation raises.
Raised(kind) ==
    CASE kind = "clone" -> "GitCommandError"
      [] kind = "read" -> "FileNotFoundError"
      [] kind = "install" -> "PackageInstallationException"
      [] kind = "editable" -> "PackageInstallationException"
      [] kind = "download" -> ""

Op(kind, target, packages, options, status) ==
    [kind |-> kind, target |-> target, packages |-> packages,
     options |-> options, status |-> status]

SetLast(s, status) == [s EXCEPT ![Len(s)].status = status]

\* No RichProgress and no Progress yet.
ProgressIdle ==
    /\ op_code = NoneValue
    /\ tasks = << >>
    /\ overall_task = NoneValue
    /\ nevents = 0
    /\ meters = << >>

\* create is called: the flags are any, the registry follows --chime-member;
\* the Progress of the clone loop is entered.
Init ==
    /\ ProgressIdle
    /\ pc = "clone"
    /\ fast \in BOOLEAN /\ compat \in BOOLEAN
    /\ download \in BOOLEAN /\ chime_member \in BOOLEAN
    /\ chime_repositories =
          IF chime_member
          THEN Last(public_repositories, MaxPublic) \o private_repositories
          ELSE Last(public_repositories, MaxPublic)
    /\ idx = 1
    /\ pending = << >>
    /\ requirements = << >>
    /\ optional_requirements = << >>
    /\ installed_packages = {}
    /\ req_dict = << >>
    /\ code_path = << >>
    /\ ops = << >>
    /\ error = ""

flags == <<fast, compat, download, chime_member, chime_repositories>>

\* One iteration of the clone loop begins: the RichProgress of the repository is
\* made and git.Repo.clone_from is called.
CloneStart ==
    /\ pc = "clone"
    /\ LET name == chime_repositories[idx]
       IN  /\ RichProgress(Label(labeller(idx, Len(chime_repositories)), name))
           /\ ops' = Append(ops, Op("clone", name, {}, << >>, "running"))
    /\ \E events \in CloneEvents : pending' = events
    /\ pc' = "cloning"
    /\ UNCHANGED <<flags, idx, requirements, optional_requirements,
                   installed_packages, req_dict, code_path, error>>

\* While clone_from runs, git calls RichProgress.update.
CloneUpdate ==
    /\ pc = "cloning"
    /\ pending # << >>
    /\ update(Head(pending).op_code, Head(pending).cur_count, Head(pending).max_count)
    /\ pending' = Tail(pending)
    /\ UNCHANGED <<pc, flags, idx, requirements, optional_requirements,
                   installed_packages, req_dict, code_path, ops, error>>

\* clone_from returns and the project file is read.  The RichProgress is not
\* referenced any more; its meters stay on the display.
CloneRepo ==
    /\ pc = "cloning"
    /\ pending = << >>
    /\ \E file \in Manifests(chime_repositories[idx]) :
        LET name == chime_repositories[idx]
        IN  /\ code_path' = (name :> file) @@ code_path
            /\ requirements' = requirements \o find_requirements(file)
            /\ optional_requirements' =
                  (name :> find_optional_requirements(file)) @@ optional_requirements
            /\ ops' = Append(SetLast(ops, "ok"), Op("read", name, {}, << >>, "ok"))
    /\ op_code' = NoneValue
    /\ tasks' = << >>
    /\ overall_task' = NoneValue
    /\ nevents' = 0
    /\ idx' = IF idx = Len(chime_repositories) THEN 1 ELSE idx + 1
    /\ pc' = IF idx = Len(chime_repositories) THEN "extras" ELSE "clone"
    /\ UNCHANGED <<meters, flags, pending, installed_packages, req_dict, error>>

\* git.Repo.clone_from raises, after any number of its progress events.
CloneFails ==
    /\ pc = "cloning"
    /\ ops' = SetLast(ops, "failed")
    /\ error' = Raised("clone")
    /\ pc' = OnFailure("clone", "clone")
    /\ UNCHANGED <<progressVars, flags, idx, pending, requirements,
                   optional_requirements, installed_packages, req_dict, code_path>>

\* The clone has no pyproject.toml: find_requirements raises FileNotFoundError.
ProjectFileNotFound ==
    /\ pc = "cloning"
    /\ pending = << >>
    /\ LET name == chime_repositories[idx]
       IN  /\ code_path' = (name :> NoFile) @@ code_path
           /\ ops' = Append(SetLast(ops, "ok"), Op("read", name, {}, << >>, "failed"))
    /\ error' = Raised("read")
    /\ pc' = OnFailure("read", "clone")
    /\ UNCHANGED <<progressVars, flags, idx, pending, requirements,
                   optional_requirements, installed_packages, req_dict>>

\* The extras activation loop.
FindOptional ==
    /\ pc = "extras"
    /\ \E order \in ExtraOrders :
        \E r \in {ActivateExtras(requirements, chime_repo_names,
                                 optional_requirements, order)} :
            /\ requirements' = r.requirements
            /\ error' = IF r.KeyError THEN "KeyError" ELSE ""
            /\ pc' = IF r.KeyError THEN "failed" ELSE "remove_chime"
    /\ UNCHANGED <<progressVars, flags, idx, pending, optional_requirements, installed_packages,
                   req_dict, code_path, ops>>

\* Remove the CHIME packages from the install list.
RemoveChimePackages ==
    /\ pc = "remove_chime"
    /\ requirements' = RemoveChime(requirements, chime_repo_names)
    /\ pc' = "freeze"
    /\ UNCHANGED <<progressVars, flags, idx, pending, optional_requirements, installed_packages,
                   req_dict, code_path, ops, error>>

\* pip freeze, and the removal of what is already installed.
RemoveInstalledPackages ==
    /\ pc = "freeze"
    /\ \E out \in FreezeOutputs :
        /\ installed_packages' = out
        /\ requirements' = RemoveInstalled(requirements, out)
    /\ pc' = "manual"
    /\ UNCHANGED <<progressVars, flags, idx, pending, optional_requirements, req_dict, code_path,
                   ops, error>>

\* requirements += [Requirement(req) for req in extra_packages]
AddManualExtras ==
    /\ pc = "manual"
    /\ requirements' = requirements \o ParseAll(extra_packages)
    /\ pc' = "group"
    /\ UNCHANGED <<progressVars, flags, idx, pending, optional_requirements, installed_packages,
                   req_dict, code_path, ops, error>>

\* Group the requirements by canonical name; then `progress` is bound to the
\* new Progress of the install loop that follows.
GroupByName ==
    /\ pc = "group"
    /\ req_dict' = Group(<< >>, sorted(requirements))
    /\ meters' = << >>
    /\ idx' = 1
    /\ pc' = IF req_dict' = << >> THEN "phase2" ELSE "phase1"
    /\ UNCHANGED <<richVars, flags, pending, requirements, optional_requirements,
                   installed_packages, code_path, ops, error>>

\* Phase 1: install_multiple is called for group idx.
InstallGroup ==
    /\ pc = "phase1"
    /\ ops' = Append(ops, Op("install", req_dict[idx].name,
                             {str(req) : req \in Range(req_dict[idx].reqs)},
                             GroupOptions(fast), "running"))
    /\ meters' = add_task(meters, Label(labeller(idx, Len(req_dict)),
                                        req_dict[idx].name), NoneValue)
    /\ pc' = "phase1_wait"
    /\ UNCHANGED <<richVars, flags, idx, pending, requirements, optional_requirements,
                   installed_packages, req_dict, code_path, error>>

\* ... and returns: the task of the group is reset to complete.  After the
\* last group `progress` is bound to the new Progress of Phase 2.
InstallGroupDone ==
    /\ pc = "phase1_wait"
    /\ ops' = SetLast(ops, "ok")
    /\ meters' = IF idx = Len(req_dict) THEN << >>
                 ELSE reset(meters, Len(meters) - 1, 1, 1)
    /\ idx' = IF idx = Len(req_dict) THEN 1 ELSE idx + 1
    /\ pc' = IF idx = Len(req_dict) THEN "phase2" ELSE "phase1"
    /\ UNCHANGED <<richVars, flags, pending, requirements, optional_requirements,
                   installed_packages, req_dict, code_path, error>>

\* ... or raises.
InstallGroupFails ==
    /\ pc = "phase1_wait"
    /\ ops' = SetLast(ops, "failed")
    /\ error' = Raised("install")
    /\ idx' = IF OnFailure("install", "next") = "failed" THEN idx
              ELSE IF idx = Len(req_dict) THEN 1 ELSE idx + 1
    /\ pc' = OnFailure("install",
                       IF idx = Len(req_dict) THEN "phase2" ELSE "phase1")
    /\ UNCHANGED <<progressVars, flags, pending, requirements, optional_requirements,
                   installed_packages, req_dict, code_path>>

\* Phase 2: env.install("-e <clone>") is called for repository idx.
InstallRepo ==
    /\ pc = "phase2"
    /\ ops' = Append(ops, Op("editable", chime_repo_names[idx], {},
                             EditableOptions(fast, compat), "running"))
    /\ meters' = add_task(meters, Label(labeller(idx, Len(chime_repo_names)),
                                        chime_repo_names[idx]), NoneValue)
    /\ pc' = "phase2_wait"
    /\ UNCHANGED <<richVars, flags, idx, pending, requirements, optional_requirements,
                   installed_packages, req_dict, code_path, error>>

AfterPhase2 == IF download THEN "download" ELSE "done"

\* ... and returns: the task of the repository is reset to complete.
InstallRepoDone ==
    /\ pc = "phase2_wait"
    /\ ops' = SetLast(ops, "ok")
    /\ meters' = reset(meters, Len(meters) - 1, 1, 1)
    /\ idx' = IF idx = Len(chime_repo_names) THEN idx ELSE idx + 1
    /\ pc' = IF idx = Len(chime_repo_names) THEN AfterPhase2 ELSE "phase2"
    /\ UNCHANGED <<richVars, flags, pending, requirements, optional_requirements,
                   installed_packages, req_dict, code_path, error>>

InstallRepoFails ==
    /\ pc = "phase2_wait"
    /\ ops' = SetLast(ops, "failed")
    /\ error' = Raised("editable")
    /\ idx' = IF OnFailure("editable", "next") = "failed"
                 \/ idx = Len(chime_repo_names) THEN idx ELSE idx + 1
    /\ pc' = OnFailure("editable",
                       IF idx = Len(chime_repo_names) THEN AfterPhase2 ELSE "phase2")
    /\ UNCHANGED <<progressVars, flags, pending, requirements, optional_requirements,
                   installed_packages, req_dict, code_path>>

\* The skyfield download, which succeeds ...
Download ==
    /\ pc = "download"
    /\ ops' = Append(ops, Op("download", << >>, {}, << >>, "ok"))
    /\ pc' = "done"
    /\ UNCHANGED <<progressVars, flags, pending, idx, requirements, optional_requirements,
                   installed_packages, req_dict, code_path, error>>

\* ... or fails: the exception is caught and printed.
DownloadFails ==
    /\ pc = "download"
    /\ ops' = Append(ops, Op("download", << >>, {}, << >>, "failed"))
    /\ error' = Raised("download")
    /\ pc' = OnFailure("download", "done")
    /\ UNCHANGED <<progressVars, flags, pending, idx, requirements, optional_requirements,
                   installed_packages, req_dict, code_path>>

Next ==
    \/ CloneStart \/ CloneUpdate \/ CloneRepo \/ CloneFails \/ ProjectFileNotFound
    \/ FindOptional \/ RemoveChimePackages \/ RemoveInstalledPackages
    \/ AddManualExtras \/ GroupByName
    \/ InstallGroup \/ InstallGroupDone \/ InstallGroupFails
    \/ InstallRepo \/ InstallRepoDone \/ InstallRepoFails
    \/ Download \/ DownloadFails

Spec == Init /\ [][Next]_vars

ProgressNext == Update

ProgressSpec == ProgressInit /\ [][ProgressNext]_vars

(***************************************************************************)
(* Auxiliary definitions of the properties.                                *)
(***************************************************************************)
Count(q, seq) == Cardinality({i \in DOMAIN seq : seq[i] = q})

RECURSIVE SumOver(_, _)
SumOver(f, S) ==
    IF S = {} THEN 0
    ELSE LET x == CHOOSE x \in S : TRUE IN f[x] + SumOver(f, S \ {x})

RECURSIVE Flatten(_)
Flatten(ss) == IF ss = << >> THEN << >> ELSE Head(ss) \o Flatten(Tail(ss))

\* The repositories whose project file has been read.
Read == {n \in DOMAIN code_path : "missing" \notin DOMAIN code_path[n]}

\* The union of the required lists of the manifests read so far, in registry order.
Required ==
    Flatten([j \in DOMAIN chime_repositories |->
               IF chime_repositories[j] \in Read
               THEN find_requirements(code_path[chime_repositories[j]])
               ELSE << >>])

\* The optional group E that the manifest of repository R declares.
Declared(R, E) == R \in Read /\ E \in DOMAIN code_path[R].optional
OptionalGroup(R, E) == ParseAll(code_path[R].optional[E])

\* What the extras of requirement r can bring in: the groups r references by
\* naming a managed repository and listing the extra, one after the other.
Referenced(r) ==
    IF r.name \in Range(chime_repo_names)
    THEN LET extras == SortedStrings(r.extras)
         IN  Flatten([i \in DOMAIN extras |->
                        IF Declared(r.name, extras[i])
                        THEN OptionalGroup(r.name, extras[i])
                        ELSE << >>])
    ELSE << >>

\* The required lists followed by the groups their entries reference.
Explained(required) ==
    required \o Flatten([j \in DOMAIN required |-> Referenced(required[j])])

InPlan == Flatten([g \in DOMAIN req_dict |-> req_dict[g].reqs])

\* The states in which req_dict has been built.
Grouped ==
    \/ pc \in {"phase1", "phase1_wait", "phase2", "phase2_wait", "download", "done"}
    \/ pc = "failed" /\ error = Raised("install")

OpsOfKind(kind) == {i \in DOMAIN ops : ops[i].kind = kind}

Overall == meters[overall_task + 1].completed

\* The stage of a signal, by the bits of the signal.
HasBit(n, bit) == (n \div bit) % 2 = 1
StageOf(n) ==
    IF HasBit(n, COUNTING) THEN [code |-> COUNTING, msg |-> "Counting (remote)"]
    ELSE IF HasBit(n, COMPRESSING) THEN [code |-> COMPRESSING, msg |-> "Compressing (remote)"]
    ELSE IF HasBit(n, RECEIVING) THEN [code |-> RECEIVING, msg |-> "Receiving"]
    ELSE IF HasBit(n, RESOLVING) THEN [code |-> RESOLVING, msg |-> "Resolving"]
    ELSE [code |-> 0, msg |-> "Unknown"]

(***************************************************************************)
(* The properties.                                                         *)
(***************************************************************************)

\* C1: after aggregation no key of req_dict is the canonical name of a managed
\* repository of the registry.
C1_SelfExclusion ==
    \A g \in DOMAIN req_dict : \A j \in DOMAIN chime_repo_names :
        req_dict[g].name # canonicalize_name(chime_repo_names[j])

\* C2: the overall counter advances at most once per distinct stage, so it never
\* exceeds the number of distinct stages seen, nor its total of 4.
C2_OverallOncePerStage ==
    meters # << >> =>
        /\ Overall <= Cardinality(DOMAIN tasks)
        /\ Overall <= OverallTotal

\* C3: an extra that the referenced repository does not declare (or a raw name
\* that is no key of the optional map) is ignored: the activation raises nothing.
C3_UnknownExtraIgnored == error # "KeyError"

\* C4: the working list, and the install plan, hold no more copies of a
\* requirement than the required lists and the optional groups that some
\* required entry references (naming the repository, listing the extra) explain.
C4_ExtrasOnlyWhenReferenced ==
    \A explained \in {Explained(Required)} : \A plan \in {InPlan} :
        /\ \A q \in Range(requirements) :
              Count(q, requirements) <= Count(q, explained)
        /\ \A q \in Range(plan) : Count(q, plan) <= Count(q, explained)

\* C4 happens: an optional group is declared and referenced by no requirement,
\* while another one has been activated.
C4_Witness ==
    /\ pc = "done"
    /\ \E q \in Range(InPlan) : Count(q, Required) = 0
    /\ \E R \in Read : \E E \in DOMAIN code_path[R].optional :
          /\ OptionalGroup(R, E) # << >>
          /\ \A j \in DOMAIN Required :
                ~(Required[j].name = R /\ E \in Required[j].extras)

\* C5: every surviving requirement is in exactly one group, the group of its
\* canonical name; requirements of one canonical name share a group; a group
\* keeps every requirement that maps to it.
C5_Grouping ==
    Grouped =>
        \A canonical \in {[i \in DOMAIN requirements |->
                              canonicalize_name(requirements[i].name)]} :
        /\ \A g, h \in DOMAIN req_dict :
              req_dict[g].name = req_dict[h].name => g = h
        /\ \A i \in DOMAIN requirements :
              LET q == requirements[i]
                  gs == {g \in DOMAIN req_dict : q \in Range(req_dict[g].reqs)}
              IN  /\ Cardinality(gs) = 1
                  /\ \A g \in gs :
                        /\ req_dict[g].name = canonical[i]
                        /\ Count(q, req_dict[g].reqs) = Count(q, requirements)
        /\ \A i, j \in DOMAIN requirements :
              canonical[i] = canonical[j]
              => \E g \in DOMAIN req_dict :
                    {requirements[i], requirements[j]}
                        \subseteq Range(req_dict[g].reqs)
        /\ Len(InPlan) = Len(requirements)

\* C5 happens: one group holds two requirements whose raw names differ.
C5_Witness ==
    /\ Grouped
    /\ \E g \in DOMAIN req_dict : \E q, r \in Range(req_dict[g].reqs) :
          q.name # r.name

\* C6: the already-installed filter drops a requirement exactly when its string
\* is an entry of the installed list; what it keeps is kept by the next step,
\* is grouped, and is in the packages of the install of its group.
C6_InstalledExclusion ==
    [][ /\ pc = "freeze" =>
              \A q \in Range(requirements) :
                  Count(q, requirements') =
                      IF str(q) \in installed_packages' THEN 0
                      ELSE Count(q, requirements)
        /\ pc = "manual" =>
              \A q \in Range(requirements) :
                  Count(q, requirements') >= Count(q, requirements)
        /\ pc = "group" =>
              \A q \in Range(requirements) :
                  \E g \in DOMAIN req_dict' : q \in Range(req_dict'[g].reqs)
        /\ pc = "phase1" =>
              \A q \in Range(req_dict[idx].reqs) :
                  str(q) \in ops'[Len(ops')].packages
      ]_vars

\* C6 happens: y was required and is dropped because "y" is installed, while
\* y>=1 is installed in Phase 1.
C6_Witness ==
    /\ <<"y">> \in installed_packages
    /\ \E j \in DOMAIN Required : str(Required[j]) = <<"y">>
    /\ \A i \in DOMAIN requirements : str(requirements[i]) # <<"y">>
    /\ \E i \in OpsOfKind("install") :
          /\ ops[i].packages = {<<"y", ">", "=", "1">>}
          /\ ops[i].status = "ok"

\* C7: every group install precedes every repository install; there is one
\* install per group, in the order of req_dict; the repositories are installed
\* in registry order, each with --no-deps first; at most one install runs.
C7_TwoPhaseOrder ==
    LET inst == SelectSeq(ops, LAMBDA o : o.kind = "install")
        edit == SelectSeq(ops, LAMBDA o : o.kind = "editable")
    IN  /\ \A i \in OpsOfKind("editable") : \A j \in OpsOfKind("install") : j < i
        /\ Len(inst) <= Len(req_dict)
        /\ \A k \in DOMAIN inst :
              /\ inst[k].target = req_dict[k].name
              /\ inst[k].packages = {str(q) : q \in Range(req_dict[k].reqs)}
        /\ edit # << >> =>
              /\ Len(inst) = Len(req_dict)
              /\ \A k \in DOMAIN inst : inst[k].status = "ok"
        /\ Len(edit) <= Len(chime_repo_names)
        /\ \A k \in DOMAIN edit :
              /\ edit[k].target = chime_repo_names[k]
              /\ edit[k].options # << >> /\ edit[k].options[1] = "--no-deps"
              /\ k < Len(edit) => edit[k].status = "ok"
        /\ \A i \in DOMAIN ops : ops[i].status = "running" => i = Len(ops)
        /\ pc = "done" => Len(edit) = Len(chime_repo_names)

\* C7 happens: the run is over, with at least two groups and two repositories
\* installed.
C7_Witness ==
    /\ pc = "done"
    /\ Cardinality(OpsOfKind("install")) >= 2
    /\ Cardinality(OpsOfKind("editable")) >= 2

\* C8: a failed clone, manifest read or install is the last operation issued
\* and the run has ended in an error; a failed download is followed by a
\* successful end.
C8_FailFast ==
    /\ \A i \in DOMAIN ops :
          ops[i].status = "failed" =>
              IF ops[i].kind = "download"
              THEN pc = "done" /\ error = ""
              ELSE i = Len(ops) /\ pc = "failed" /\ error = Raised(ops[i].kind)
    /\ error # "" <=> pc = "failed"

\* C8 happens: a Phase 1 install has failed while groups and repositories
\* remain to be installed.
C8_Witness ==
    /\ pc = "failed"
    /\ ops # << >>
    /\ ops[Len(ops)].kind = "install"
    /\ ops[Len(ops)].status = "failed"
    /\ Cardinality(OpsOfKind("install")) < Len(req_dict)

\* C9: the stage of the last signal is the first of Counting, Compressing,
\* Receiving, Resolving whose bit it has, else Unknown (code 0), and it is done
\* exactly when the signal has the END bit: update() has put the meter of that
\* stage, under that description, with visibility "not done".
C9_MatchOpcode ==
    op_code # NoneValue =>
        LET stage == StageOf(op_code)
        IN  /\ stage.code \in DOMAIN tasks
            /\ \A c \in DOMAIN tasks :
                  meters[tasks[c] + 1].description = StageOf(c).msg
            /\ meters[tasks[stage.code] + 1].visible = ~HasBit(op_code, END)

\* C9 happens: a signal with the bits of two stages and the END bit has been
\* matched to the first of them, and one with no stage bit to Unknown.
C9_Witness ==
    /\ op_code = RECEIVING + RESOLVING + END
    /\ RECEIVING \in DOMAIN tasks
    /\ RESOLVING \notin DOMAIN tasks
    /\ 0 \in DOMAIN tasks

\* C10: the activation appends, once for each extra of each entry of the
\* required lists that names a managed repository, the group of that extra, and
\* nothing else: entries brought in by an extra activate nothing.
C10_SinglePass ==
    pc = "remove_chime" =>
        /\ SubSeq(requirements, 1, Len(Required)) = Required
        /\ Len(requirements) =
              Len(Required)
              + SumOver([j \in DOMAIN Required |->
                           IF NamesChimeRepo(Required[j], chime_repo_names)
                           THEN SumOver([E \in Required[j].extras |->
                                           Len(OptionalGroup(Required[j].name, E))],
                                        Required[j].extras)
                           ELSE 0],
                        DOMAIN Required)

\* C10 happens: an entry brought in by an extra names a managed repository and
\* lists an extra that this repository declares with a non-empty group.
C10_Witness ==
    /\ pc = "remove_chime"
    /\ \E i \in DOMAIN requirements :
          /\ i > Len(Required)
          /\ requirements[i].name \in Range(chime_repo_names)
          /\ \E E \in requirements[i].extras :
                /\ Declared(requirements[i].name, E)
                /\ OptionalGroup(requirements[i].name, E) # << >>

====
